---------------------------- MODULE Spec2Model ----------------------------
(***************************************************************************)
(* A model of package httperr (github.com/alxarch/httperr): HTTP error     *)
(* values, their JSON payload, FromResponse and RespondJSON.               *)
(*                                                                         *)
(* Strings and byte slices are sequences of symbols.  A symbol is a TLA+   *)
(* string standing for one character ("a", the double quote, the           *)
(* backslash, "<", a byte that is not valid UTF-8, U+FFFD) or for a run of *)
(* ordinary characters that no operation of the package ever splits        *)
(* ("Not Found", "404", "message").                                        *)
(***************************************************************************)
EXTENDS Integers, Sequences, FiniteSets, TLC

(* ------------------------------ symbols ------------------------------ *)

DQ == "\""
BS == "\\"
LT == "<"
NL == "\n"
SP == " "
\* one byte that is not valid UTF-8 (0xFF), and the replacement rune U+FFFD
BAD == "<0xFF>"
RUNE_ERR == "<U+FFFD>"

(* ------------------------ net/http, fmt, strconv ---------------------- *)

\* http.StatusText: the reason text of a code, empty for an unknown code
StatusText(code) ==
    CASE code = 200 -> <<"OK">>
      [] code = 400 -> <<"Bad Request">>
      [] code = 404 -> <<"Not Found">>
      [] code = 405 -> <<"Method Not Allowed">>
      [] code = 500 -> <<"Internal Server Error">>
      [] OTHER -> <<>>

\* the %d verb: the decimal text of an integer
Itoa(n) == <<ToString(n)>>

\* strconv.Quote on one symbol, as the %q verb applies it
QuoteSym(s) ==
    CASE s = DQ -> <<BS, DQ>>
      [] s = BS -> <<BS, BS>>
      [] s = NL -> <<BS, "n">>
      [] s = BAD -> <<BS, "xff">>
      [] OTHER -> <<s>>

RECURSIVE QuoteChars(_)
QuoteChars(s) ==
    IF s = <<>> THEN <<>> ELSE QuoteSym(Head(s)) \o QuoteChars(Tail(s))

\* the %q verb on a text
Quote(s) == <<DQ>> \o QuoteChars(s) \o <<DQ>>

(* ----------------------------- error values --------------------------- *)

\* the nil error
Nil == [kind |-> "nil"]

\* errors.New(text), and what errors.Errorf returns once formatted
ErrorsNew(text) == [kind |-> "errorString", s |-> text]

\* New creates a new HTTP error: &httpError{err: err, code: code}
New(code, err) == [kind |-> "httpError", code |-> code, err |-> err]

RECURSIVE Error(_)
\* the Error() method of an error value
Error(e) ==
    CASE e.kind = "httpError" ->
            IF e.err.kind = "nil"
            THEN Itoa(e.code) \o <<SP>> \o StatusText(e.code)
            ELSE Itoa(e.code) \o <<SP>> \o StatusText(e.code) \o <<":", SP>>
                    \o Quote(Error(e.err))
      [] OTHER -> e.s

\* (*httpError).StatusCode
StatusCode(e) == e.code

\* (*httpError).Unwrap
Unwrap(e) == e.err

(* ---------------------------- encoding/json --------------------------- *)

\* type Response struct
Response(message, error, statusCode) ==
    [Message |-> message, Error |-> error, StatusCode |-> statusCode]

\* the zero Response that json.Unmarshal decodes into
ZeroResponse == Response(<<>>, <<>>, 0)

\* the integers whose decimal text the decoder recognises as a number
KnownInts == {0, 7, 99, 100, 200, 399, 400, 404, 405, 500, 599, 600}

IsNumber(s) == \E n \in KnownInts : ToString(n) = s

Atoi(s) == CHOOSE n \in KnownInts : ToString(n) = s

\* the encoder's string escaping (escapeHTML on): one symbol of a Go string.
\* A byte that is not valid UTF-8 is written as the escape of U+FFFD.
EncodeSym(s) ==
    CASE s = DQ -> <<BS, DQ>>
      [] s = BS -> <<BS, BS>>
      [] s = NL -> <<BS, "n">>
      [] s = LT -> <<BS, "u003c">>
      [] s = BAD -> <<BS, "ufffd">>
      [] OTHER -> <<s>>

RECURSIVE EncodeChars(_)
EncodeChars(s) ==
    IF s = <<>> THEN <<>> ELSE EncodeSym(Head(s)) \o EncodeChars(Tail(s))

\* a Go string as a JSON string literal
JSONString(s) == <<DQ>> \o EncodeChars(s) \o <<DQ>>

\* json.Marshal of a Response value
JsonMarshalResponse(p) ==
    <<"{", DQ, "message", DQ, ":">> \o JSONString(p.Message)
        \o <<",", DQ, "error", DQ, ":">> \o JSONString(p.Error)
        \o <<",", DQ, "statusCode", DQ, ":">> \o Itoa(p.StatusCode)
        \o <<"}">>

SyntaxEOF == <<"unexpected end of JSON input">>
SyntaxChar == <<"invalid character">>
TypeError == <<"json: cannot unmarshal">>

IsSpace(s) == s \in {SP, NL}

RECURSIVE SkipSpace(_, _)
\* the first position at or after i that holds no white space
SkipSpace(w, i) ==
    IF i <= Len(w) /\ IsSpace(w[i]) THEN SkipSpace(w, i + 1) ELSE i

\* the character an escape stands for, "" when the escape is invalid
Unescape(s) ==
    CASE s = DQ -> DQ
      [] s = BS -> BS
      [] s = "n" -> NL
      [] s = "u003c" -> LT
      [] s = "ufffd" -> RUNE_ERR
      [] OTHER -> ""

ScanFail(why) == [ok |-> FALSE, why |-> why, next |-> 0, s |-> <<>>]

RECURSIVE ScanString(_, _, _)
\* a string literal's content from position i, just after its opening quote
ScanString(w, i, acc) ==
    CASE i > Len(w) -> ScanFail(SyntaxEOF)
      [] i <= Len(w) /\ w[i] = DQ ->
            [ok |-> TRUE, why |-> <<>>, next |-> i + 1, s |-> acc]
      [] i <= Len(w) /\ w[i] = BS ->
            IF i + 1 > Len(w) THEN ScanFail(SyntaxEOF)
            ELSE IF Unescape(w[i + 1]) = "" THEN ScanFail(SyntaxChar)
            ELSE ScanString(w, i + 2, Append(acc, Unescape(w[i + 1])))
      [] i <= Len(w) /\ w[i] = NL -> ScanFail(SyntaxChar)
      [] i <= Len(w) /\ w[i] = BAD ->
            ScanString(w, i + 1, Append(acc, RUNE_ERR))
      [] OTHER -> ScanString(w, i + 1, Append(acc, w[i]))

ValueFail(why) ==
    [ok |-> FALSE, why |-> why, next |-> 0, t |-> "", s |-> <<>>, n |-> 0,
     members |-> <<>>]

Scalar(t, s, n, next) ==
    [ok |-> TRUE, why |-> <<>>, next |-> next, t |-> t, s |-> s, n |-> n,
     members |-> <<>>]

RECURSIVE ParseValue(_, _)
RECURSIVE ParseMembers(_, _, _)

\* the JSON value that starts at position i (no white space before it)
ParseValue(w, i) ==
    CASE i > Len(w) -> ValueFail(SyntaxEOF)
      [] i <= Len(w) /\ w[i] = DQ ->
            LET r == ScanString(w, i + 1, <<>>)
            IN  IF r.ok THEN Scalar("string", r.s, 0, r.next)
                ELSE ValueFail(r.why)
      [] i <= Len(w) /\ w[i] = "null" -> Scalar("null", <<>>, 0, i + 1)
      [] i <= Len(w) /\ w[i] = "true" -> Scalar("bool", <<>>, 0, i + 1)
      [] i <= Len(w) /\ IsNumber(w[i]) ->
            Scalar("number", <<>>, Atoi(w[i]), i + 1)
      [] i <= Len(w) /\ w[i] = "{" ->
            LET j == SkipSpace(w, i + 1)
            IN  IF j <= Len(w) /\ w[j] = "}"
                THEN [Scalar("object", <<>>, 0, j + 1) EXCEPT !.members = <<>>]
                ELSE ParseMembers(w, j, <<>>)
      [] OTHER -> ValueFail(SyntaxChar)

\* the members of an object from position i, where a key must start
ParseMembers(w, i, acc) ==
    IF i > Len(w) THEN ValueFail(SyntaxEOF)
    ELSE IF w[i] # DQ THEN ValueFail(SyntaxChar)
    ELSE
      LET k == ScanString(w, i + 1, <<>>)
      IN  IF ~k.ok THEN ValueFail(k.why)
          ELSE
            LET c == SkipSpace(w, k.next)
            IN  IF c > Len(w) THEN ValueFail(SyntaxEOF)
                ELSE IF w[c] # ":" THEN ValueFail(SyntaxChar)
                ELSE
                  LET v == ParseValue(w, SkipSpace(w, c + 1))
                  IN  IF ~v.ok THEN ValueFail(v.why)
                      ELSE
                        LET e == SkipSpace(w, v.next)
                            all == Append(acc, [k |-> k.s, v |-> v])
                        IN  IF e > Len(w) THEN ValueFail(SyntaxEOF)
                            ELSE IF w[e] = "}"
                            THEN [Scalar("object", <<>>, 0, e + 1)
                                    EXCEPT !.members = all]
                            ELSE IF w[e] = ","
                            THEN ParseMembers(w, SkipSpace(w, e + 1), all)
                            ELSE ValueFail(SyntaxChar)

\* the whole input as one JSON value (json.Unmarshal's checkValid)
ParseDocument(data) ==
    LET v == ParseValue(data, SkipSpace(data, 1))
    IN  IF ~v.ok THEN v
        ELSE IF SkipSpace(data, v.next) <= Len(data) THEN ValueFail(SyntaxChar)
        ELSE v

\* a key folded to lower case, as the decoder matches struct fields
FoldSym(s) == IF s = "Message" THEN "message" ELSE s

FoldKey(k) == [i \in 1..Len(k) |-> FoldSym(k[i])]

RECURSIVE DecodeMembers(_, _)
\* the members of an object decoded into a Response, in order; a value of the
\* wrong type leaves its field alone and is remembered as the decode error
DecodeMembers(members, st) ==
    IF members = <<>> THEN st
    ELSE
      LET m == Head(members)
          key == FoldKey(m.k)
          bad == [st EXCEPT !.err = IF st.err = <<>> THEN TypeError ELSE st.err]
          nxt ==
            CASE m.v.t = "null" -> st
              [] key = <<"message">> ->
                    IF m.v.t = "string"
                    THEN [st EXCEPT !.tmp.Message = m.v.s] ELSE bad
              [] key = <<"error">> ->
                    IF m.v.t = "string"
                    THEN [st EXCEPT !.tmp.Error = m.v.s] ELSE bad
              [] key = <<"statusCode">> ->
                    IF m.v.t = "number"
                    THEN [st EXCEPT !.tmp.StatusCode = m.v.n] ELSE bad
              [] OTHER -> st
      IN  DecodeMembers(Tail(members), nxt)

\* json.Unmarshal(data, &tmp) for a zero tmp of type Response:
\* err is the error's text, empty when there is none
JsonUnmarshalResponse(data) ==
    LET v == ParseDocument(data)
        st0 == [err |-> <<>>, tmp |-> ZeroResponse]
    IN  IF ~v.ok THEN [st0 EXCEPT !.err = v.why]
        ELSE IF v.t = "null" THEN st0
        ELSE IF v.t = "object" THEN DecodeMembers(v.members, st0)
        ELSE [st0 EXCEPT !.err = TypeError]

\* a MarshalJSON that fills message and error the wrong way round
PayloadSwapped(e) ==
    LET err == StatusText(e.code)
        msg == IF e.err.kind # "nil" THEN Error(e.err) ELSE err
    IN  Response(err, msg, e.code)

\* a MarshalJSON that leaves message empty when there is no cause
PayloadNoReason(e) ==
    LET err == StatusText(e.code)
        msg == IF e.err.kind # "nil" THEN Error(e.err) ELSE <<>>
    IN  Response(msg, err, e.code)

\* (*httpError).MarshalJSON: the Response it builds
Payload(e) ==
    LET err == StatusText(e.code)
        msg == IF e.err.kind # "nil" THEN Error(e.err) ELSE err
    IN  Response(msg, err, e.code)

\* (*httpError).MarshalJSON: the bytes it returns
MarshalJSON(e) == JsonMarshalResponse(Payload(e))

(* --------------------------------- mime ------------------------------- *)

RECURSIVE TrimLeft(_)
TrimLeft(s) == IF s # <<>> /\ IsSpace(Head(s)) THEN TrimLeft(Tail(s)) ELSE s

RECURSIVE TrimRight(_)
TrimRight(s) ==
    IF s # <<>> /\ IsSpace(s[Len(s)])
    THEN TrimRight(SubSeq(s, 1, Len(s) - 1)) ELSE s

TrimSpace(s) == TrimRight(TrimLeft(s))

RECURSIVE IndexOf(_, _, _)
\* the first position at or after i that holds symbol c, Len(s) + 1 if none
IndexOf(s, c, i) ==
    IF i > Len(s) \/ s[i] = c THEN i ELSE IndexOf(s, c, i + 1)

\* strings.ToLower on one symbol of a header value
ToLowerSym(s) ==
    CASE s = "TEXT/PLAIN" -> "text/plain"
      [] s = "Text/Html" -> "text/html"
      [] OTHER -> s

ToLower(s) == [i \in 1..Len(s) |-> ToLowerSym(s[i])]

\* the symbols that are a token, or a token, a slash and a token
WellFormedType(s) ==
    s \in {"text/plain", "text/html", "text/xml", "application/json",
           "image/png", "text"}

\* the attribute of a well-formed parameter, "" for anything else
ParamKey(s) ==
    CASE s = "charset=utf-8" -> "charset"
      [] s = "charset=ascii" -> "charset"
      [] s = "q=1" -> "q"
      [] OTHER -> ""

RECURSIVE ParseParams(_, _)
\* the parameter loop of mime.ParseMediaType on what follows the media type
ParseParams(v, seen) ==
    LET v1 == TrimLeft(v)
    IN  IF v1 = <<>> THEN "ok"
        ELSE
          LET v2 == IF Head(v1) = ";" THEN TrimLeft(Tail(v1)) ELSE <<>>
              key == IF v2 = <<>> THEN "" ELSE ParamKey(Head(v2))
          IN  IF key = ""
              THEN IF TrimSpace(v1) = <<";">> THEN "ok" ELSE "invalid"
              ELSE IF key \in seen THEN "duplicate"
              ELSE ParseParams(Tail(v2), seen \cup {key})

\* mime.ParseMediaType(v): the media type and the error's text (empty: none).
\* A malformed parameter returns the media type along with
\* ErrInvalidMediaParameter; every other failure returns no media type.
ParseMediaType(v) ==
    LET i == IndexOf(v, ";", 1)
        mediatype == TrimSpace(ToLower(SubSeq(v, 1, i - 1)))
        params == ParseParams(SubSeq(v, i, Len(v)), {})
    IN  IF mediatype = <<>>
        THEN [mediatype |-> "", err |-> <<"mime: no media type">>]
        ELSE IF Len(mediatype) # 1 \/ ~WellFormedType(mediatype[1])
        THEN [mediatype |-> "", err |-> <<"mime: malformed media type">>]
        ELSE IF params = "invalid"
        THEN [mediatype |-> mediatype[1],
              err |-> <<"mime: invalid media parameter">>]
        ELSE IF params = "duplicate"
        THEN [mediatype |-> "", err |-> <<"mime: duplicate parameter name">>]
        ELSE [mediatype |-> mediatype[1], err |-> <<>>]

(* --------------------------- package functions ------------------------ *)

RECURSIVE Sprintf(_, _)
\* fmt.Sprintf: format is a sequence of literal pieces and verbs, args the
\* texts the verbs print (an error argument prints its Error())
Sprintf(format, args) ==
    IF format = <<>> THEN <<>>
    ELSE IF Head(format) \in {"%s", "%q"}
    THEN IF args = <<>>
         THEN <<"%!(MISSING)">> \o Sprintf(Tail(format), args)
         ELSE (IF Head(format) = "%q" THEN Quote(Head(args)) ELSE Head(args))
                \o Sprintf(Tail(format), Tail(args))
    ELSE <<Head(format)>> \o Sprintf(Tail(format), args)

\* errors.Errorf(format, args...)
ErrorsErrorf(format, args) == ErrorsNew(Sprintf(format, args))

\* Errorf creates a new HTTP error by formatting a message
Errorf(code, format, args) ==
    [kind |-> "httpError", code |-> code, err |-> ErrorsErrorf(format, args)]

StatusContinue == 100
StatusOK == 200
StatusMultipleChoices == 300
StatusBadRequest == 400
StatusNotFound == 404
StatusMethodNotAllowed == 405
StatusInternalServerError == 500

BadRequest(err) == New(StatusBadRequest, err)
InternalServerError(err) == New(StatusInternalServerError, err)
NotFound(err) == New(StatusNotFound, err)
MethodNotAllowed(err) == New(StatusMethodNotAllowed, err)

IsInformational(code) == StatusContinue <= code /\ code < StatusOK
IsSuccess(code) == StatusOK <= code /\ code < StatusMultipleChoices
IsRedirect(code) == StatusMultipleChoices <= code /\ code < StatusBadRequest
IsClientError(code) ==
    StatusBadRequest <= code /\ code < StatusInternalServerError
\* an IsServerError whose upper bound is off by one
IsServerErrorInclusive(code) ==
    StatusInternalServerError <= code /\ code <= 600

IsServerError(code) == StatusInternalServerError <= code /\ code < 600
IsError(code) == StatusBadRequest <= code /\ code < 600

TextTypes == {"text/plain", "text/html", "text/xml"}

\* a FromResponse that takes a failed media type parse for no media type
FromResponseResultParseStrict(resp, data, err) ==
    IF err.kind # "nil"
    THEN New(resp.StatusCode,
             ErrorsErrorf(<<"Failed to read response body: ", "%q">>,
                          <<Error(err)>>))
    ELSE
      LET m == ParseMediaType(resp.ContentType)
          mediatype == IF m.err = <<>> THEN m.mediatype ELSE ""
      IN  IF mediatype \in TextTypes
          THEN New(resp.StatusCode, ErrorsNew(data))
          ELSE
            LET u == JsonUnmarshalResponse(data)
            IN  IF u.err # <<>>
                THEN New(resp.StatusCode,
                         ErrorsErrorf(<<"Error parsing response: ", "%s">>,
                                      <<u.err>>))
                ELSE New(resp.StatusCode, ErrorsNew(u.tmp.Message))

\* a FromResponse that reports a failed read as an internal server error
FromResponseResultReadFailure500(resp, data, err) ==
    IF err.kind # "nil"
    THEN InternalServerError(
             ErrorsErrorf(<<"Failed to read response body: ", "%q">>,
                          <<Error(err)>>))
    ELSE
      LET mediatype == ParseMediaType(resp.ContentType).mediatype
      IN  IF mediatype \in TextTypes
          THEN New(resp.StatusCode, ErrorsNew(data))
          ELSE
            LET u == JsonUnmarshalResponse(data)
            IN  IF u.err # <<>>
                THEN New(resp.StatusCode,
                         ErrorsErrorf(<<"Error parsing response: ", "%s">>,
                                      <<u.err>>))
                ELSE New(resp.StatusCode, ErrorsNew(u.tmp.Message))

\* the value FromResponse returns, given what ioutil.ReadAll returned
FromResponseResult(resp, data, err) ==
    IF err.kind # "nil"
    THEN New(resp.StatusCode,
             ErrorsErrorf(<<"Failed to read response body: ", "%q">>,
                          <<Error(err)>>))
    ELSE
      LET mediatype == ParseMediaType(resp.ContentType).mediatype
      IN  IF mediatype \in TextTypes
          THEN New(resp.StatusCode, ErrorsNew(data))
          ELSE
            LET u == JsonUnmarshalResponse(data)
            IN  IF u.err # <<>>
                THEN New(resp.StatusCode,
                         ErrorsErrorf(<<"Error parsing response: ", "%s">>,
                                      <<u.err>>))
                ELSE New(resp.StatusCode, ErrorsNew(u.tmp.Message))

(* ------------------------ RespondJSON's helpers ----------------------- *)

\* x.(error): the value is an error
ImplementsError(x) == x.kind \in {"errorString", "httpError", "custom"}

\* err.(StatusCoder): the error has a StatusCode() method
ImplementsStatusCoder(e) ==
    e.kind = "httpError" \/ (e.kind = "custom" /\ e.coder)

\* err.(json.Unmarshaler): the error has an UnmarshalJSON method.
\* httpError defines MarshalJSON only.
ImplementsUnmarshaler(e) == e.kind = "custom" /\ e.unmarshaler

\* the value has a MarshalJSON method (json.Marshaler)
ImplementsMarshaler(e) ==
    e.kind = "httpError" \/ (e.kind = "custom" /\ e.marshaler)

\* what json.Marshal makes of a value: its own MarshalJSON when it has one,
\* else the encoding of its exported fields
JsonMarshal(v) ==
    CASE v.kind = "httpError" -> [ok |-> TRUE, bytes |-> MarshalJSON(v)]
      [] v.kind = "custom" /\ v.marshaler -> [ok |-> v.jsonOK, bytes |-> v.json]
      [] v.kind = "custom" /\ ~v.marshaler ->
            [ok |-> TRUE, bytes |-> <<"{", "}">>]
      [] v.kind = "errorString" -> [ok |-> TRUE, bytes |-> <<"{", "}">>]
      [] v.kind = "string" -> [ok |-> TRUE, bytes |-> JSONString(v.s)]
      [] v.kind = "int" -> [ok |-> TRUE, bytes |-> Itoa(v.n)]
      [] v.kind = "Response" ->
            [ok |-> TRUE, bytes |-> JsonMarshalResponse(v.p)]
      [] OTHER -> [ok |-> TRUE, bytes |-> <<"null">>]

\* a RespondJSON that never asks the error for its status code
RespondJSONCodeNoCoder(x) ==
    IF ImplementsError(x) THEN StatusInternalServerError ELSE StatusOK

\* the status code RespondJSON writes for x
RespondJSONCode(x) ==
    IF ImplementsError(x)
    THEN IF ImplementsStatusCoder(x) THEN StatusCode(x)
         ELSE StatusInternalServerError
    ELSE StatusOK

\* the value RespondJSON hands to enc.Encode
RespondJSONEncoded(x) ==
    IF ImplementsError(x)
    THEN IF ImplementsUnmarshaler(x) THEN x
         ELSE New(RespondJSONCode(x), x)
    ELSE x

(* ------------------------------- inputs ------------------------------- *)

\* the longest cause text drawn
MaxLen == 2
\* the most symbols one Read of the body delivers
ChunkLen == 16
\* how far below 100 and above 599 the classified codes go
Margin == 5

TextAlphabet == {"a", DQ, BS, LT, NL, BAD, RUNE_ERR}

Texts == UNION {[1..n -> TextAlphabet] : n \in 0..MaxLen}

Codes == {0, 99, 200, 404, 500, 600}

ResponseCodes == {200, 404, 500, 600}

PlainErrors == {ErrorsNew(s) : s \in Texts}

Causes ==
    {Nil} \cup PlainErrors \cup {New(404, Nil), New(0, ErrorsNew(<<"a">>))}

HTTPErrors == {New(c, e) : c \in Codes, e \in Causes}

CustomErrors ==
    {[kind |-> "custom", s |-> <<"a">>, coder |-> c, code |-> n,
      marshaler |-> m, unmarshaler |-> u, json |-> <<DQ, "b", DQ>>,
      jsonOK |-> k] :
        c \in BOOLEAN, n \in {7, 404}, m \in BOOLEAN, u \in BOOLEAN,
        k \in BOOLEAN}

Values ==
    {Nil, [kind |-> "int", n |-> 7], [kind |-> "Response",
     p |-> Response(<<"a">>, <<"b">>, 404)]}
        \cup {[kind |-> "string", s |-> s] : s \in Texts}

IOErrors == {ErrorsNew(<<"unexpected EOF">>),
             ErrorsNew(<<"connection reset", DQ>>)}

ContentTypes ==
    { <<>>, <<"text/plain">>, <<"text/html">>, <<"text/xml">>,
      <<"application/json">>, <<"image/png">>, <<"text">>, <<"TEXT/PLAIN">>,
      <<SP, "text/xml", SP>>, <<"text/plain", ";", SP, "charset=utf-8">>,
      <<"text/plain", ";">>, <<"text/plain", ";", "charset">>,
      <<"application/json", ";", "charset">>,
      <<"text/html", ";", "charset=utf-8", ";", "charset=ascii">>,
      <<"text/">>, <<"text/plain", SP, "x">>, <<";", "q=1">> }

RawBodies ==
    { <<>>, <<"a">>, <<"a", "b">>, <<"null">>, <<"404", NL>>, <<"{", "}">>,
      <<"{", "}", "}">>, <<DQ, "a", DQ>>, <<"true">>,
      <<"{", DQ, "message", DQ, ":", DQ, "a">>,
      <<"{", DQ, "message", DQ, ":", "7", "}">>,
      <<"{", DQ, "message", DQ, ":", "null", ",", DQ, "statusCode", DQ, ":",
        DQ, "a", DQ, "}">>,
      <<"{", DQ, "Message", DQ, ":", DQ, "b", BAD, DQ, ",", DQ, "other", DQ,
        ":", "{", DQ, "a", DQ, ":", "7", "}", "}", NL>>,
      <<"{", DQ, "message", DQ, ":", DQ, BS, "a", DQ, "}">>,
      <<"{", DQ, "error", DQ, ":", DQ, "Not Found", DQ, "}">> }

Formats == { <<"a">>, <<"a", "%s">>, <<"%q">>, <<"%s", ":", "%q">> }

RECURSIVE Verbs(_)
Verbs(format) ==
    IF format = <<>> THEN 0
    ELSE (IF Head(format) \in {"%s", "%q"} THEN 1 ELSE 0) + Verbs(Tail(format))

ArgTexts == {<<>>, <<"a">>, <<DQ, BAD>>}

(* ------------------------------- state -------------------------------- *)

VARIABLES
    pc,       \* where the running call is: "idle", a step of it, or "done"
    op,       \* the function called last
    r,        \* FromResponse: the response (StatusCode, ContentType, Body)
    origin,   \* the HTTP error whose MarshalJSON made r.Body, Nil if none
    bodyPos,  \* how many symbols of r.Body have been read
    data,     \* what ioutil.ReadAll has collected
    readErr,  \* the error ioutil.ReadAll returned
    events,   \* the calls made on r.Body, in order: "Read", "Close"
    x,        \* RespondJSON's value; the receiver of MarshalJSON
    w,        \* the ResponseWriter: header, status codes and bytes written
    wlog,     \* the calls made on w, in order
    wrapped,  \* the HTTP error RespondJSON built around x, Nil if none
    ret,      \* the error value returned
    out,      \* the bytes MarshalJSON returned
    payload,  \* the Response MarshalJSON handed to json.Marshal
    code,     \* the code classified
    class     \* what the six range predicates said of code

vars == <<pc, op, r, origin, bodyPos, data, readErr, events, x, w, wlog,
          wrapped, ret, out, payload, code, class>>

NoResponse == [StatusCode |-> 0, ContentType |-> <<>>, Body |-> <<>>]
NoWriter == [header |-> <<>>, status |-> <<>>, body |-> <<>>]
NoClass == [informational |-> FALSE, success |-> FALSE, redirect |-> FALSE,
            clientError |-> FALSE, serverError |-> FALSE, error |-> FALSE]

Init ==
    /\ pc = "idle"
    /\ op = "none"
    /\ r = NoResponse
    /\ origin = Nil
    /\ bodyPos = 0
    /\ data = <<>>
    /\ readErr = Nil
    /\ events = <<>>
    /\ x = Nil
    /\ w = NoWriter
    /\ wlog = <<>>
    /\ wrapped = Nil
    /\ ret = Nil
    /\ out = <<>>
    /\ payload = ZeroResponse
    /\ code = 0
    /\ class = NoClass

\* no call was made yet.  The package keeps no state between calls, so a
\* behaviour is one call, from its arguments to its return.
Ready == pc = "idle"

responseVars == <<r, origin, bodyPos, data, readErr, events>>
writerVars == <<w, wlog, wrapped>>
classVars == <<code, class>>
marshalVars == <<out, payload>>

\* a call that returns an error value in one step
Returns(name, value) ==
    /\ pc' = "done"
    /\ op' = name
    /\ ret' = value
    /\ UNCHANGED <<x, marshalVars, responseVars, writerVars, classVars>>

(* ------------------------------ actions ------------------------------- *)

CallNew ==
    /\ Ready
    /\ \E c \in Codes, e \in Causes : Returns("New", New(c, e))

CallErrorf ==
    /\ Ready
    /\ \E c \in Codes, f \in Formats, a \in ArgTexts :
            Returns("Errorf", Errorf(c, f, [i \in 1..Verbs(f) |-> a]))

CallBadRequest ==
    /\ Ready
    /\ \E e \in Causes : Returns("BadRequest", BadRequest(e))

CallInternalServerError ==
    /\ Ready
    /\ \E e \in Causes :
            Returns("InternalServerError", InternalServerError(e))

CallNotFound ==
    /\ Ready
    /\ \E e \in Causes : Returns("NotFound", NotFound(e))

CallMethodNotAllowed ==
    /\ Ready
    /\ \E e \in Causes : Returns("MethodNotAllowed", MethodNotAllowed(e))

CallMarshalJSON ==
    /\ Ready
    /\ \E e \in HTTPErrors :
        /\ pc' = "done"
        /\ op' = "MarshalJSON"
        /\ x' = e
        /\ payload' = Payload(e)
        /\ out' = MarshalJSON(e)
        /\ UNCHANGED <<ret, responseVars, writerVars, classVars>>

Classify ==
    /\ Ready
    /\ \E c \in (StatusContinue - Margin)..(599 + Margin) :
        /\ pc' = "done"
        /\ op' = "Classify"
        /\ code' = c
        /\ class' = [informational |-> IsInformational(c),
                     success |-> IsSuccess(c),
                     redirect |-> IsRedirect(c),
                     clientError |-> IsClientError(c),
                     serverError |-> IsServerError(c),
                     error |-> IsError(c)]
        /\ UNCHANGED <<ret, x, marshalVars, responseVars, writerVars>>

\* FromResponse(r) is called: r.Body is open and unread
CallFromResponse ==
    /\ Ready
    /\ \E c \in ResponseCodes, ct \in ContentTypes :
        \E o \in {Nil} \cup {New(c, e) : e \in Causes}, raw \in RawBodies :
            /\ o.kind # "nil" => raw = <<>>
            /\ pc' = "FromResponse.ReadAll"
            /\ op' = "FromResponse"
            /\ r' = [StatusCode |-> c, ContentType |-> ct,
                     Body |-> IF o.kind = "nil" THEN raw ELSE MarshalJSON(o)]
            /\ origin' = o
            /\ UNCHANGED <<bodyPos, data, readErr, events, ret, x,
                           marshalVars, writerVars, classVars>>

Min(a, b) == IF a < b THEN a ELSE b

\* ioutil.ReadAll: one Read that delivers the next symbols of the body
ReadAllRead ==
    /\ pc = "FromResponse.ReadAll"
    /\ bodyPos < Len(r.Body)
    /\ LET n == Min(ChunkLen, Len(r.Body) - bodyPos)
       IN  /\ data' = data \o SubSeq(r.Body, bodyPos + 1, bodyPos + n)
           /\ bodyPos' = bodyPos + n
    /\ events' = Append(events, "Read")
    /\ UNCHANGED <<pc, op, r, origin, readErr, x, w, wlog, wrapped, ret,
                   marshalVars, code, class>>

\* ioutil.ReadAll: the Read that meets the end of the body; ReadAll returns
ReadAllEOF ==
    /\ pc = "FromResponse.ReadAll"
    /\ bodyPos = Len(r.Body)
    /\ events' = Append(events, "Read")
    /\ pc' = "FromResponse.switch"
    /\ UNCHANGED <<op, r, origin, bodyPos, data, readErr, x, w, wlog, wrapped,
                   ret, marshalVars, code, class>>

\* ioutil.ReadAll: a Read that fails; ReadAll returns the error
ReadAllFail ==
    /\ pc = "FromResponse.ReadAll"
    /\ \E e \in IOErrors :
        /\ events' = Append(events, "Read")
        /\ readErr' = e
        /\ pc' = "FromResponse.switch"
        /\ UNCHANGED <<op, r, origin, bodyPos, data, x, w, wlog, wrapped, ret,
                       marshalVars, code, class>>

\* FromResponse reaches one of its return statements
FromResponseReturn ==
    /\ pc = "FromResponse.switch"
    /\ ret' = FromResponseResult(r, data, readErr)
    /\ pc' = "FromResponse.defer"
    /\ UNCHANGED <<op, r, origin, bodyPos, data, readErr, events, x, w, wlog,
                   wrapped, marshalVars, code, class>>

\* a FromResponse that closes the body on its last lines only, so that the
\* early return after a failed read leaves it open
FromResponseCloseUnlessReadFailed ==
    /\ pc = "FromResponse.defer"
    /\ events' = IF readErr.kind = "nil" THEN Append(events, "Close")
                 ELSE events
    /\ pc' = "done"
    /\ UNCHANGED <<op, r, origin, bodyPos, data, readErr, x, w, wlog, wrapped,
                   ret, marshalVars, code, class>>

\* the deferred r.Body.Close() runs and FromResponse returns
FromResponseDefer ==
    /\ pc = "FromResponse.defer"
    /\ events' = Append(events, "Close")
    /\ pc' = "done"
    /\ UNCHANGED <<op, r, origin, bodyPos, data, readErr, x, w, wlog, wrapped,
                   ret, marshalVars, code, class>>

\* RespondJSON(w, x) is called on a writer nothing was written to
CallRespondJSON ==
    /\ Ready
    /\ \E v \in Values \cup PlainErrors \cup HTTPErrors \cup CustomErrors,
       h \in {<<>>, <<"text/plain">>} :
        /\ pc' = "RespondJSON.Header"
        /\ op' = "RespondJSON"
        /\ x' = v
        /\ w' = [NoWriter EXCEPT !.header = h]
        /\ UNCHANGED <<wlog, wrapped, ret, marshalVars, responseVars,
                       classVars>>

\* a RespondJSON that sets the Content-Type after it wrote the status
RespondJSONHeaderAfterStatus ==
    /\ pc = "RespondJSON.Header"
    /\ w' = [w EXCEPT !.status = Append(@, RespondJSONCode(x)),
                      !.header = <<"application/json">>]
    /\ wlog' = wlog \o <<"WriteHeader", "Header.Set">>
    /\ pc' = "RespondJSON.Encode"
    /\ UNCHANGED <<op, r, origin, bodyPos, data, readErr, events, x, wrapped,
                   ret, marshalVars, code, class>>

\* w.Header().Set("Content-Type", "application/json")
RespondJSONHeader ==
    /\ pc = "RespondJSON.Header"
    /\ w' = [w EXCEPT !.header = <<"application/json">>]
    /\ wlog' = Append(wlog, "Header.Set")
    /\ pc' = "RespondJSON.WriteHeader"
    /\ UNCHANGED <<op, r, origin, bodyPos, data, readErr, events, x, wrapped,
                   ret, marshalVars, code, class>>

\* w.WriteHeader(code), on the error branch or the value branch
RespondJSONWriteHeader ==
    /\ pc = "RespondJSON.WriteHeader"
    /\ w' = [w EXCEPT !.status = Append(@, RespondJSONCode(x))]
    /\ wlog' = Append(wlog, "WriteHeader")
    /\ pc' = "RespondJSON.Encode"
    /\ UNCHANGED <<op, r, origin, bodyPos, data, readErr, events, x, wrapped,
                   ret, marshalVars, code, class>>

\* enc.Encode(...): the encoding and a newline in one Write, or the
\* encoder's error and nothing written
RespondJSONEncode ==
    /\ pc = "RespondJSON.Encode"
    /\ LET v == RespondJSONEncoded(x)
           m == JsonMarshal(v)
       IN  /\ wrapped' = IF v = x THEN Nil ELSE v
           /\ IF m.ok
              THEN /\ w' = [w EXCEPT !.body = @ \o m.bytes \o <<NL>>]
                   /\ wlog' = Append(wlog, "Write")
                   /\ ret' = Nil
              ELSE /\ ret' = ErrorsNew(<<"json: error calling MarshalJSON">>)
                   /\ UNCHANGED <<w, wlog>>
    /\ pc' = "done"
    /\ UNCHANGED <<op, r, origin, bodyPos, data, readErr, events, x,
                   marshalVars, code, class>>

Next ==
    \/ CallNew
    \/ CallErrorf
    \/ CallBadRequest
    \/ CallInternalServerError
    \/ CallNotFound
    \/ CallMethodNotAllowed
    \/ CallMarshalJSON
    \/ Classify
    \/ CallFromResponse
    \/ ReadAllRead
    \/ ReadAllEOF
    \/ ReadAllFail
    \/ FromResponseReturn
    \/ FromResponseDefer
    \/ CallRespondJSON
    \/ RespondJSONHeader
    \/ RespondJSONWriteHeader
    \/ RespondJSONEncode

Spec == Init /\ [][Next]_vars

(* ------------------------------ properties ---------------------------- *)

\* FromResponse has reached a return statement
FromResponseReturned ==
    op = "FromResponse" /\ pc \in {"FromResponse.defer", "done"}

\* the cause FromResponse gives when it decodes the body as a Response
DecodedCause(body) ==
    LET u == JsonUnmarshalResponse(body)
    IN  IF u.err = <<>> THEN u.tmp.Message
        ELSE <<"Error parsing response: ">> \o u.err

\* C1 as claimed: when the body was read, the cause is the raw body if the
\* Content-Type header parses to text/plain, text/html or text/xml, and the
\* decoded payload's message (or the "Error parsing response" text) for every
\* other header, a header whose parsing fails included.
C1_AsClaimed ==
    (FromResponseReturned /\ readErr.kind = "nil") =>
        LET m == ParseMediaType(r.ContentType)
        IN  IF m.err = <<>> /\ m.mediatype \in TextTypes
            THEN Error(ret.err) = r.Body
            ELSE Error(ret.err) = DecodedCause(r.Body)

\* C1 as amended: when the body was read, the cause is the raw body if the
\* media type mime.ParseMediaType returns is text/plain, text/html or
\* text/xml, also when it returns it along with an error for a malformed
\* parameter; for every other result, the empty media type of a failed parse
\* included, the cause is the decoded payload's message or the
\* "Error parsing response" text.  The parse error is never the cause.
C1_MediaTypeDispatch ==
    (FromResponseReturned /\ readErr.kind = "nil") =>
        LET m == ParseMediaType(r.ContentType)
        IN  /\ IF m.mediatype \in TextTypes
               THEN Error(ret.err) = r.Body
               ELSE Error(ret.err) = DecodedCause(r.Body)
            /\ m.err # <<>> => Error(ret.err) # m.err

\* C1's case: a text/plain header with a malformed parameter, raw body kept
C1_Witness ==
    /\ FromResponseReturned
    /\ readErr.kind = "nil"
    /\ r.ContentType = <<"text/plain", ";", "charset">>
    /\ r.Body = <<"a", "b">>
    /\ Error(ret.err) = <<"a", "b">>

\* C2: whatever the response and whichever return statement is reached,
\* FromResponse returns a non-nil HTTP error whose StatusCode() is the
\* response's status code and whose cause is non-nil; after a failed read the
\* cause quotes the read error.
C2_AlwaysHTTPErrorAtStatus ==
    FromResponseReturned =>
        /\ ret.kind = "httpError"
        /\ StatusCode(ret) = r.StatusCode
        /\ Unwrap(ret).kind # "nil"
        /\ readErr.kind # "nil" =>
              Error(Unwrap(ret)) =
                  <<"Failed to read response body: ">> \o Quote(Error(readErr))

\* C2's case: a failed read on a response with a non-error status code
C2_Witness ==
    /\ FromResponseReturned
    /\ readErr.kind # "nil"
    /\ r.StatusCode = 200
    /\ StatusCode(ret) = 200

RespondJSONDone == op = "RespondJSON" /\ pc = "done"

\* C3: RespondJSON writes one status code: the error's StatusCode() when it
\* has one, 500 for any other error, and 200 for a value that is no error,
\* whose own encoding is then the body.
C3_StatusWritten ==
    /\ op = "RespondJSON" => Len(w.status) <= 1
    /\ RespondJSONDone =>
        /\ Len(w.status) = 1
        /\ x.kind = "httpError" => w.status[1] = x.code
        /\ (x.kind = "custom" /\ x.coder) => w.status[1] = x.code
        /\ (x.kind = "custom" /\ ~x.coder) => w.status[1] = 500
        /\ x.kind = "errorString" => w.status[1] = 500
        /\ x.kind \in {"nil", "int", "string", "Response"} =>
              /\ w.status[1] = 200
              /\ w.body = JsonMarshal(x).bytes \o <<NL>>

\* C3's case: an error without StatusCode() was answered with 500
C3_Witness ==
    /\ RespondJSONDone
    /\ x.kind = "errorString"
    /\ w.status = <<500>>

IsPrefix(s, full) == Len(s) <= Len(full) /\ s = SubSeq(full, 1, Len(s))

\* C4: in every call of RespondJSON the writer sees Header().Set, then
\* WriteHeader, then Write, each at most once: the Content-Type is
\* application/json when the status is written, and no header or status
\* change follows a body byte.
C4_WriterOrder ==
    op = "RespondJSON" =>
        /\ IsPrefix(wlog, <<"Header.Set", "WriteHeader", "Write">>)
        /\ Len(wlog) >= 1 => w.header = <<"application/json">>
        /\ Len(w.status) = (IF Len(wlog) >= 2 THEN 1 ELSE 0)
        /\ w.body # <<>> <=> Len(wlog) = 3
        /\ pc = "done" => Len(wlog) >= 2
        /\ (pc = "done" /\ ret.kind = "nil") => Len(wlog) = 3

\* C4's case: an error answered in full, header first and body last
C4_Witness ==
    /\ RespondJSONDone
    /\ x.kind = "httpError"
    /\ wlog = <<"Header.Set", "WriteHeader", "Write">>
    /\ w.body # <<>>

\* C5 as claimed: an error that has its own MarshalJSON is encoded as it is
\* (the body is its own JSON), and only an error without one is wrapped in
\* New(code, err).
C5_AsClaimed ==
    (RespondJSONDone /\ ImplementsError(x)) =>
        IF ImplementsMarshaler(x)
        THEN /\ wrapped.kind = "nil"
             /\ JsonMarshal(x).ok => w.body = JsonMarshal(x).bytes \o <<NL>>
        ELSE wrapped = New(w.status[1], x)

ValidUTF8(s) == \A i \in 1..Len(s) : s[i] # BAD

\* the call FromResponse(r) made on the MarshalJSON bytes of New(c, cause),
\* with status c and Content-Type application/json, has returned
RoundTripped ==
    /\ FromResponseReturned
    /\ readErr.kind = "nil"
    /\ origin.kind = "httpError"
    /\ origin.err.kind # "nil"
    /\ r.ContentType = <<"application/json">>
    /\ r.StatusCode = origin.code

\* C6 as claimed: the round trip returns an HTTP error with the same code
\* whose cause text is the text of the original cause, for every cause.
C6_AsClaimed ==
    RoundTripped =>
        /\ ret.kind = "httpError"
        /\ StatusCode(ret) = origin.code
        /\ Error(Unwrap(ret)) = Error(origin.err)

\* C6 as amended: the round trip returns an HTTP error with the same code
\* whose cause text is the text of the original cause, for every cause
\* whose text is valid UTF-8.
C6_RoundTripValidUTF8 ==
    (RoundTripped /\ ValidUTF8(Error(origin.err))) =>
        /\ ret.kind = "httpError"
        /\ StatusCode(ret) = origin.code
        /\ Error(Unwrap(ret)) = Error(origin.err)

\* C6's case: a cause text that needs escaping came back as it was
C6_Witness ==
    /\ RoundTripped
    /\ pc = "done"
    /\ Error(origin.err) = <<DQ, LT>>
    /\ Error(Unwrap(ret)) = <<DQ, LT>>

\* the keys of an object's members, in order
Keys(v) == [i \in 1..Len(v.members) |-> v.members[i].k]

C8_AsClaimed ==
    \A e \in {ret, wrapped} :
        e.kind = "httpError" => (100 <= StatusCode(e) /\ StatusCode(e) <= 599)

TrueOf(c) == {p \in DOMAIN c : c[p]}

\* C9 as claimed: exactly one of the six range predicates is true of every
\* code in [100,599].
C9_AsClaimed ==
    (op = "Classify" /\ 100 <= code /\ code <= 599) =>
        Cardinality(TrueOf(class)) = 1

\* C9 as amended: of every code in [100,599] exactly one of the five class
\* predicates (IsInformational, IsSuccess, IsRedirect, IsClientError,
\* IsServerError) is true, and IsError is true exactly when IsClientError or
\* IsServerError is; each predicate is true exactly on its interval, and all
\* six are false below 100 and from 600 on.
C9_Partition ==
    op = "Classify" =>
        /\ class.informational <=> code \in 100..199
        /\ class.success <=> code \in 200..299
        /\ class.redirect <=> code \in 300..399
        /\ class.clientError <=> code \in 400..499
        /\ class.serverError <=> code \in 500..599
        /\ class.error <=> code \in 400..599
        /\ code \in 100..599 =>
              Cardinality(TrueOf(class) \ {"error"}) = 1
        /\ code \notin 100..599 => TrueOf(class) = {}

\* C9's case: the last code of the last interval
C9_Witness ==
    /\ op = "Classify"
    /\ code = 599
    /\ TrueOf(class) = {"serverError", "error"}

Count(s, c) == Cardinality({i \in 1..Len(s) : s[i] = c})

\* C10: in every call of FromResponse the body is closed at most once and
\* exactly once when the call is over; the Close is the last call on the
\* body, after the Read that ended ioutil.ReadAll; and if the read succeeded
\* the whole body was read before the Close.
C10_CloseOnceAfterRead ==
    op = "FromResponse" =>
        /\ Count(events, "Close") = (IF pc = "done" THEN 1 ELSE 0)
        /\ \A i \in 1..Len(events) : events[i] = "Close" => i = Len(events)
        /\ pc = "done" =>
              /\ Len(events) >= 2
              /\ events[Len(events) - 1] = "Read"
              /\ readErr.kind = "nil" =>
                    (bodyPos = Len(r.Body) /\ data = r.Body)

\* C10's case: a body read in several Reads to its end, then closed
C10_Witness ==
    /\ op = "FromResponse"
    /\ pc = "done"
    /\ readErr.kind = "nil"
    /\ Len(events) >= 4
    /\ events[Len(events)] = "Close"
=============================================================================
